---- MODULE Spec2Model ----
(***************************************************************************)
(* tickle-me-email: the packaging descriptor setup.py.                     *)
(*                                                                         *)
(* The repository's only source file is a script that imports setup from   *)
(* setuptools and calls it once with seven keyword arguments.  The model   *)
(* follows one run of "setup.py <argv>": the import, the evaluation of the *)
(* keyword arguments in source order, the call of setup(), which keeps the *)
(* arguments as the distribution's metadata, and the metadata display      *)
(* options of the command line (--name, --version, ...), which print the   *)
(* metadata back.  The display options are setuptools' documented          *)
(* behaviour, not code of this repository; they are the way the values     *)
(* the descriptor passes become observable.                                *)
(*                                                                         *)
(* A string is a TLA+ string, except the version, which is the sequence of *)
(* its characters because its components are read out of it.               *)
(***************************************************************************)
EXTENDS Integers, Sequences, FiniteSets, TLC

VARIABLES call, pc, nextArg, kwargs, dist, argv, stdout

vars == <<call, pc, nextArg, kwargs, dist, argv, stdout>>

(* Longest command line of display options that is explored. *)
MaxArgs == 2

(***************************************************************************)
(* The descriptor: the keyword arguments of the call, in source order.     *)
(***************************************************************************)

(* Variants of the descriptor with one plausible slip each (a second       *)
(* script, a renamed package, a version left unbumped, ...); each property *)
(* below fails on its variant.                                             *)
Setup430_TwoScripts ==
    << <<"name", "tickle-me-email">>,
       <<"version", <<"4", ".", "3", ".", "0">>>>,
       <<"url", "https://chris-lamb.co.uk/projects/tickle-me-email">>,
       <<"author", "Chris Lamb">>,
       <<"author_email", "chris@chris-lamb.co.uk">>,
       <<"description", "Toolbox for implementing GTD-like behaviours in your IMAP inbox">>,
       <<"scripts", <<"tickle-me-email", "tickle-me-email-cron">>>> >>

Setup430_Renamed ==
    << <<"name", "tickle_me_email">>,
       <<"version", <<"4", ".", "3", ".", "0">>>>,
       <<"url", "https://chris-lamb.co.uk/projects/tickle-me-email">>,
       <<"author", "Chris Lamb">>,
       <<"author_email", "chris@chris-lamb.co.uk">>,
       <<"description", "Toolbox for implementing GTD-like behaviours in your IMAP inbox">>,
       <<"scripts", <<"tickle-me-email">>>> >>

Setup430_VersionNotBumped ==
    << <<"name", "tickle-me-email">>,
       <<"version", <<"3", ".", "6", ".", "0">>>>,
       <<"url", "https://chris-lamb.co.uk/projects/tickle-me-email">>,
       <<"author", "Chris Lamb">>,
       <<"author_email", "chris@chris-lamb.co.uk">>,
       <<"description", "Toolbox for implementing GTD-like behaviours in your IMAP inbox">>,
       <<"scripts", <<"tickle-me-email">>>> >>

Setup430_EmptyUrl ==
    << <<"name", "tickle-me-email">>,
       <<"version", <<"4", ".", "3", ".", "0">>>>,
       <<"url", "">>,
       <<"author", "Chris Lamb">>,
       <<"author_email", "chris@chris-lamb.co.uk">>,
       <<"description", "Toolbox for implementing GTD-like behaviours in your IMAP inbox">>,
       <<"scripts", <<"tickle-me-email">>>> >>

Setup430_WithModule ==
    << <<"name", "tickle-me-email">>,
       <<"version", <<"4", ".", "3", ".", "0">>>>,
       <<"url", "https://chris-lamb.co.uk/projects/tickle-me-email">>,
       <<"author", "Chris Lamb">>,
       <<"author_email", "chris@chris-lamb.co.uk">>,
       <<"description", "Toolbox for implementing GTD-like behaviours in your IMAP inbox">>,
       <<"scripts", <<"tickle-me-email">>>>,
       <<"py_modules", <<"tickle_me_email">>>> >>

Setup430_ScriptSuffix ==
    << <<"name", "tickle-me-email">>,
       <<"version", <<"4", ".", "3", ".", "0">>>>,
       <<"url", "https://chris-lamb.co.uk/projects/tickle-me-email">>,
       <<"author", "Chris Lamb">>,
       <<"author_email", "chris@chris-lamb.co.uk">>,
       <<"description", "Toolbox for implementing GTD-like behaviours in your IMAP inbox">>,
       <<"scripts", <<"tickle-me-email.py">>>> >>

Setup430_TwoComponents ==
    << <<"name", "tickle-me-email">>,
       <<"version", <<"4", ".", "3">>>>,
       <<"url", "https://chris-lamb.co.uk/projects/tickle-me-email">>,
       <<"author", "Chris Lamb">>,
       <<"author_email", "chris@chris-lamb.co.uk">>,
       <<"description", "Toolbox for implementing GTD-like behaviours in your IMAP inbox">>,
       <<"scripts", <<"tickle-me-email">>>> >>

(* setup.py as it is in the repository: the call of setup(), lines 5-15. *)
Setup430 ==
    << <<"name", "tickle-me-email">>,
       <<"version", <<"4", ".", "3", ".", "0">>>>,
       <<"url", "https://chris-lamb.co.uk/projects/tickle-me-email">>,
       <<"author", "Chris Lamb">>,
       <<"author_email", "chris@chris-lamb.co.uk">>,
       <<"description", "Toolbox for implementing GTD-like behaviours in your IMAP inbox">>,
       <<"scripts", <<"tickle-me-email">>>> >>

(* The earlier snapshot of setup.py (3.6.0) is not among the source files. *)
(* Of it only the name, the version and the script are known; the other    *)
(* metadata texts are known to be non-empty, and are drawn from            *)
(* UnknownText.                                                            *)
UnknownText == {"a", "ab"}

Setup360 ==
    { << <<"name", "tickle-me-email">>,
         <<"version", <<"3", ".", "6", ".", "0">>>>,
         <<"url", u>>,
         <<"author", a>>,
         <<"author_email", e>>,
         <<"description", d>>,
         <<"scripts", <<"tickle-me-email">>>> >>
      : u \in UnknownText, a \in UnknownText, e \in UnknownText, d \in UnknownText }

Snapshots == {Setup430} \cup Setup360

(***************************************************************************)
(* The command line: setuptools' metadata display options.                 *)
(***************************************************************************)
DisplayOptions ==
    {"--name", "--version", "--url", "--author", "--author-email", "--description"}

(* The metadata field a display option prints. *)
OptionField(opt) ==
    CASE opt = "--name"         -> "name"
      [] opt = "--version"      -> "version"
      [] opt = "--url"          -> "url"
      [] opt = "--author"       -> "author"
      [] opt = "--author-email" -> "author_email"
      [] opt = "--description"  -> "description"

CommandLines == UNION {[1..n -> DisplayOptions] : n \in 0..MaxArgs}

(***************************************************************************)
(* One run of the script.                                                  *)
(***************************************************************************)
Init ==
    /\ call \in Snapshots
    /\ argv \in CommandLines
    /\ pc = "import"
    /\ nextArg = 1
    /\ kwargs = <<>>
    /\ dist = <<>>
    /\ stdout = <<>>

(* from setuptools import setup *)
Import ==
    /\ pc = "import"
    /\ pc' = "args"
    /\ UNCHANGED <<call, nextArg, kwargs, dist, argv, stdout>>

(* The next keyword argument of the call is evaluated and bound. *)
EvalKeyword ==
    /\ pc = "args"
    /\ nextArg <= Len(call)
    /\ kwargs' = kwargs @@ (call[nextArg][1] :> call[nextArg][2])
    /\ nextArg' = nextArg + 1
    /\ UNCHANGED <<call, pc, dist, argv, stdout>>

(* The call of setup: the keyword arguments become the distribution's     *)
(* attributes.                                                             *)
CallSetup ==
    /\ pc = "args"
    /\ nextArg > Len(call)
    /\ dist' = kwargs
    /\ pc' = "run"
    /\ UNCHANGED <<call, nextArg, kwargs, argv, stdout>>

(* A display option prints its metadata field; a field the descriptor did  *)
(* not give prints as UNKNOWN.                                             *)
Display ==
    /\ pc = "run"
    /\ argv # <<>>
    /\ LET opt == Head(argv)
           field == OptionField(opt)
           value == IF field \in DOMAIN dist THEN dist[field] ELSE "UNKNOWN"
       IN stdout' = Append(stdout, <<opt, value>>)
    /\ argv' = Tail(argv)
    /\ UNCHANGED <<call, pc, nextArg, kwargs, dist>>

(* The command line is exhausted and setup() returns. *)
Finish ==
    /\ pc = "run"
    /\ argv = <<>>
    /\ pc' = "done"
    /\ UNCHANGED <<call, nextArg, kwargs, dist, argv, stdout>>

Next == Import \/ EvalKeyword \/ CallSetup \/ Display \/ Finish

Spec == Init /\ [][Next]_vars

(* setup() has been called with the descriptor's arguments. *)
Called == pc \in {"run", "done"}

(***************************************************************************)
(* Release numbers: the reading of a version the properties below compare  *)
(* by.  A version is split at its dots and each component is read as a     *)
(* decimal integer.                                                        *)
(***************************************************************************)
Digits == <<"0", "1", "2", "3", "4", "5", "6", "7", "8", "9">>

IsDigit(c) == \E i \in DOMAIN Digits : Digits[i] = c

DigitValue(c) == (CHOOSE i \in DOMAIN Digits : Digits[i] = c) - 1

(* The components of a version: the runs of characters between its dots. *)
RECURSIVE Components(_)
Components(s) ==
    IF \E i \in DOMAIN s : s[i] = "."
    THEN LET i == CHOOSE k \in DOMAIN s :
                      s[k] = "." /\ \A j \in 1..(k - 1) : s[j] # "."
         IN <<SubSeq(s, 1, i - 1)>> \o Components(SubSeq(s, i + 1, Len(s)))
    ELSE <<s>>

(* A component is a non-negative decimal integer. *)
IsNumber(c) == c # <<>> /\ \A i \in DOMAIN c : IsDigit(c[i])

RECURSIVE NumberValue(_)
NumberValue(c) ==
    IF c = <<>> THEN 0
    ELSE NumberValue(SubSeq(c, 1, Len(c) - 1)) * 10 + DigitValue(c[Len(c)])

(* major.minor.patch and nothing else. *)
IsRelease(s) ==
    /\ Len(Components(s)) = 3
    /\ \A i \in DOMAIN Components(s) : IsNumber(Components(s)[i])

ReleaseTuple(s) == [i \in DOMAIN Components(s) |-> NumberValue(Components(s)[i])]

(* Component-wise (lexicographic) order of two tuples of the same length. *)
TupleLess(a, b) ==
    \E i \in DOMAIN a :
        /\ a[i] < b[i]
        /\ \A j \in 1..(i - 1) : a[j] = b[j]

(* stdout holds the line a display option printed. *)
Printed(opt, value) ==
    \E i \in DOMAIN stdout : stdout[i][1] = opt /\ stdout[i][2] = value

(* The value the call c gives the keyword k. *)
Arg(c, k) == c[CHOOSE i \in DOMAIN c : c[i][1] = k][2]

RequiredFields == {"name", "version", "url", "author", "author_email", "description"}

(***************************************************************************)
(* Properties of the descriptor.                                           *)
(***************************************************************************)

(* C1: in each snapshot, once setup() is called its scripts argument is a  *)
(* sequence of length 1 whose only element is 'tickle-me-email'.           *)
C1_OneScript ==
    Called =>
        /\ "scripts" \in DOMAIN dist
        /\ Len(dist["scripts"]) = 1
        /\ dist["scripts"][1] = "tickle-me-email"

C1_Witness ==
    /\ pc = "done"
    /\ call = Setup430
    /\ dist["scripts"] = <<"tickle-me-email">>

(* C2: in both snapshots the package name passed to setup() is the literal *)
(* string 'tickle-me-email'.                                               *)
C2_PackageName ==
    Called => "name" \in DOMAIN dist /\ dist["name"] = "tickle-me-email"

C2_Witness ==
    /\ pc = "done"
    /\ call \in Setup360
    /\ Printed("--name", "tickle-me-email")

(* C3: read as tuples of integers and compared component-wise, the earlier *)
(* snapshot's version 3.6.0 is strictly less than the version the present  *)
(* setup.py declares, and that version is 4.3.0.                           *)
C3_VersionIncreases ==
    (Called /\ call = Setup430) =>
        /\ ReleaseTuple(dist["version"]) = <<4, 3, 0>>
        /\ \A earlier \in Setup360 :
              /\ ReleaseTuple(Arg(earlier, "version")) = <<3, 6, 0>>
              /\ TupleLess(ReleaseTuple(Arg(earlier, "version")),
                           ReleaseTuple(dist["version"]))

C3_Witness ==
    /\ pc = "done"
    /\ call = Setup430
    /\ Printed("--version", <<"4", ".", "3", ".", "0">>)

(* C4: in each snapshot every required metadata field (name, version, url, *)
(* author, author_email, description) is passed to setup() and its value   *)
(* is a non-empty string.                                                  *)
C4_RequiredMetadata ==
    Called =>
        \A f \in RequiredFields : f \in DOMAIN dist /\ Len(dist[f]) > 0

C4_Witness ==
    /\ pc = "done"
    /\ call = Setup430
    /\ Len(stdout) = 2
    /\ stdout[1][1] = "--url" /\ Len(stdout[1][2]) > 0
    /\ stdout[2][1] = "--description" /\ Len(stdout[2][2]) > 0

(* C5: the keyword arguments the present setup.py passes to setup() are    *)
(* exactly name, version, url, author, author_email, description and       *)
(* scripts: no packages, modules, dependencies or entry points.            *)
C5_OnlyMetadataAndScript ==
    (call = Setup430) =>
        /\ DOMAIN kwargs \subseteq RequiredFields \cup {"scripts"}
        /\ Called => DOMAIN dist = RequiredFields \cup {"scripts"}

C5_Witness ==
    /\ pc = "run"
    /\ call = Setup430
    /\ nextArg = Len(Setup430) + 1
    /\ Cardinality(DOMAIN dist) = Len(Setup430)
    /\ {"packages", "py_modules", "install_requires", "entry_points"}
           \cap DOMAIN dist = {}

(* C6: the only element of setup()'s scripts argument equals its name      *)
(* argument.                                                               *)
C6_ScriptNamedAsPackage ==
    Called =>
        \A i \in DOMAIN dist["scripts"] : dist["scripts"][i] = dist["name"]

C6_Witness ==
    /\ Called
    /\ dist["scripts"] # <<>>
    /\ Printed("--name", dist["scripts"][1])

(* C7: the version the present setup.py declares is exactly three          *)
(* non-negative decimal integers separated by dots, with no suffix.        *)
C7_ReleaseNumber ==
    (Called /\ call = Setup430) => IsRelease(dist["version"])

C7_Witness ==
    /\ pc = "run"
    /\ call = Setup430
    /\ Len(Components(dist["version"])) = 3
    /\ \E i \in DOMAIN stdout :
          stdout[i][1] = "--version" /\ IsRelease(stdout[i][2])

====
